---- MODULE Spec2Model ----
(***************************************************************************)
(* Model of the chat turn handler (edge function chat-with-gemini) and of  *)
(* the storage schema with its row level security policies.                *)
(*                                                                         *)
(* A turn is one invocation of the serve handler.  Every await of the      *)
(* handler is an interleaving point: one action is the storage (or         *)
(* completion service) executing the awaited request together with the     *)
(* synchronous code that runs when the await resumes, up to the next       *)
(* request.  The block that reads the clock (today / yesterday) is an      *)
(* action of its own, so the profile update it sends is in flight until    *)
(* the storage applies it.  Calendar dates are day numbers; the two clock  *)
(* reads of that block are adjacent synchronous statements and are taken   *)
(* at one instant.                                                         *)
(*                                                                         *)
(* Invocations overlap in their background accrual: a request is taken up  *)
(* while other invocations run their accrual, but not while another one is *)
(* still before its response.  An invocation that has ended keeps only its *)
(* response.  The rewards insert runs with the caller's credential, like   *)
(* every other statement of the handler, under the policies of the schema. *)
(***************************************************************************)
EXTENDS Integers, Sequences, FiniteSets, TLC

\* ------------------------------------------------------------------ bounds
MaxDay == 5        \* the clock stops advancing at this day
MaxTurns == 2      \* number of handler invocations in one behaviour
ClockStart == 4    \* the day on which the behaviour starts
MaxMsgLen == 5     \* length of the enumerated request messages
MaxStored == 12    \* stored messages of the conversation a behaviour can start with

\* --------------------------------------------------------- program constants
BaseReward == 1
StreakBonus == 5
BoostCost == 10
TitleLimit == 50
HistoryLimit == 10
ErrorStatus == 500
OkStatus == 200

\* ------------------------------------------------------------- value spaces
Users == {"u1", "u2"}
Slots == {"s1", "s2"}          \* handler invocations that can be in flight together

NoUser == "nobody"
NoHeader == "noheader"
NoConv == 0                    \* conversationId absent from the request
NoDate == 0                    \* last_activity_date IS NULL
NoProfile == [absent |-> TRUE] \* no row of public.profiles for the user

\* Authorization headers: a bearer token per user, and one that resolves to nobody.
AuthHeaders == {"tok_u1", "tok_u2", "tok_bad"}

\* supabase.auth.getUser(): the user the header's credential resolves to.
getUser(authHeader) ==
  CASE authHeader = "tok_u1" -> "u1"
    [] authHeader = "tok_u2" -> "u2"
    [] OTHER -> NoUser

\* Messages are sequences of characters.
CleanMsg == <<"h", "i">>
BannedMsg == <<"H", "a", "t", "e">>
Messages == {CleanMsg, BannedMsg}
AiReply == <<"o", "k">>

LowerLetters == <<"a","b","c","d","e","f","g","h","i","j","k","l","m",
                  "n","o","p","q","r","s","t","u","v","w","x","y","z">>
UpperLetters == <<"A","B","C","D","E","F","G","H","I","J","K","L","M",
                  "N","O","P","Q","R","S","T","U","V","W","X","Y","Z">>
Digits == {"0","1","2","3","4","5","6","7","8","9"}

Range(f) == {f[i] : i \in DOMAIN f}

\* \w of the regular expression
WordChars == Range(LowerLetters) \cup Range(UpperLetters) \cup Digits \cup {"_"}

toLowerCaseChar(c) ==
  IF c \in Range(UpperLetters)
  THEN LowerLetters[CHOOSE i \in DOMAIN UpperLetters : UpperLetters[i] = c]
  ELSE c

toLowerCase(str) == [i \in DOMAIN str |-> toLowerCaseChar(str[i])]

BannedWords == { <<"v","i","o","l","e","n","c","e">>,
                 <<"h","a","t","e">>,
                 <<"i","l","l","e","g","a","l">>,
                 <<"h","a","r","m","f","u","l">> }

\* word w occurs in str at position i, with a \b on both sides
MatchesAt(str, w, i) ==
  /\ i + Len(w) - 1 <= Len(str)
  /\ \A k \in 1..Len(w) : toLowerCaseChar(str[i + k - 1]) = w[k]
  /\ (i = 1 \/ str[i - 1] \notin WordChars)
  /\ (i + Len(w) - 1 = Len(str) \/ str[i + Len(w)] \notin WordChars)

\* isHarmful without the \b on either side of the word.
isHarmfulSubstring(message) ==
  \E w \in BannedWords : \E i \in 1..Len(message) :
    /\ i + Len(w) - 1 <= Len(message)
    /\ \A k \in 1..Len(w) : toLowerCase(message)[i + k - 1] = w[k]

\* /\b(violence|hate|illegal|harmful)\b/i.test(message.toLowerCase())
isHarmful(message) ==
  \E w \in BannedWords : \E i \in 1..Len(message) :
    MatchesAt(toLowerCase(message), w, i)

\* Title with the dots appended from the limit on.
TitleDotsAtLimit(message) ==
  IF Len(message) >= TitleLimit
  THEN SubSeq(message, 1, TitleLimit) \o <<".", ".", ".">>
  ELSE message

\* message.slice(0, 50) + (message.length > 50 ? '...' : '')
Title(message) ==
  IF Len(message) > TitleLimit
  THEN SubSeq(message, 1, TitleLimit) \o <<".", ".", ".">>
  ELSE message

\* ------------------------------------------------------------------ schema
\* A row of public.profiles as the trigger handle_new_user creates it.
FreshProfile ==
  [total_points |-> 0, current_streak |-> 0, last_activity_date |-> NoDate]

\* A row of public.profiles after accruals on the three days before the
\* behaviour starts (1 + 6 + 6 points, a streak of 3).
VeteranProfile ==
  [total_points |-> 13, current_streak |-> 3, last_activity_date |-> ClockStart - 1]

\* The profile rows the behaviour can start from, per user.
InitProfilesOf(u) ==
  IF u = "u1" THEN {FreshProfile, VeteranProfile} ELSE {NoProfile}

\* The days with a rewarded turn that lie behind a starting profile row.
InitAccrualDays(row) ==
  IF row = NoProfile \/ row.last_activity_date = NoDate
  THEN {}
  ELSE (row.last_activity_date - row.current_streak + 1)..row.last_activity_date

\* Row level security.  auth.uid() is uid; a table with RLS enabled and no
\* policy for a command denies that command.
ProfilesSelectPolicy(uid, row_user_id) == uid = row_user_id
ProfilesUpdatePolicy(uid, row_user_id) == uid = row_user_id
ConversationsInsertPolicy(uid, row_user_id) == uid = row_user_id
RewardsSelectPolicy(uid, row_user_id) == uid = row_user_id
RewardsInsertPolicy(uid, row_user_id) == FALSE

\* OwnsConversation without the test of the owner.
OwnsConversationAnyOwner(convs, uid, conversation_id) ==
  conversation_id \in DOMAIN convs

\* conversation_id IN (SELECT id FROM conversations WHERE user_id = auth.uid())
OwnsConversation(convs, uid, conversation_id) ==
  /\ conversation_id \in DOMAIN convs
  /\ convs[conversation_id].user_id = uid
MessagesSelectPolicy(convs, uid, conversation_id) ==
  OwnsConversation(convs, uid, conversation_id)
MessagesInsertPolicy(convs, uid, conversation_id) ==
  OwnsConversation(convs, uid, conversation_id)

\* ------------------------------------------------------- reward computation
\* StreakStep with the test against today left out.
StreakStepNoTodayGuard(profile, today, yesterday) ==
  IF profile.last_activity_date = yesterday
  THEN [pointsToAdd |-> BaseReward + StreakBonus,
        newStreak |-> profile.current_streak + 1]
  ELSE [pointsToAdd |-> BaseReward, newStreak |-> 1]

\* StreakStep paying the streak bonus on every turn of a day.
StreakStepSameDayBonus(profile, today, yesterday) ==
  IF profile.last_activity_date = yesterday \/ profile.last_activity_date = today
  THEN [pointsToAdd |-> BaseReward + StreakBonus,
        newStreak |-> IF profile.last_activity_date = today
                      THEN profile.current_streak
                      ELSE profile.current_streak + 1]
  ELSE [pointsToAdd |-> BaseReward, newStreak |-> 1]

\* pointsToAdd and newStreak of one accrual run (before the boost: lines 247-258).
StreakStep(profile, today, yesterday) ==
  IF profile.last_activity_date # today
  THEN IF profile.last_activity_date = yesterday
       THEN [pointsToAdd |-> BaseReward + StreakBonus,
             newStreak |-> profile.current_streak + 1]
       ELSE [pointsToAdd |-> BaseReward, newStreak |-> 1]
  ELSE [pointsToAdd |-> BaseReward, newStreak |-> profile.current_streak]

\* BoostStep without the test of the balance.
BoostStepNoBalanceCheck(pointsToAdd, profile, isBoost) ==
  IF isBoost THEN pointsToAdd - BoostCost ELSE pointsToAdd

\* if (isBoost && profile.total_points >= 10) pointsToAdd -= 10
BoostStep(pointsToAdd, profile, isBoost) ==
  IF isBoost /\ profile.total_points >= BoostCost
  THEN pointsToAdd - BoostCost
  ELSE pointsToAdd

\* type of the rewards row
RewardType(pointsToAdd) ==
  IF pointsToAdd > 1 THEN "streak" ELSE IF pointsToAdd > 0 THEN "message" ELSE "boost"

\* The values of the profile update (lines 268-272).
ProfileUpdateValues(profile, pointsToAdd, newStreak, today) ==
  [total_points |-> profile.total_points + pointsToAdd,
   current_streak |-> newStreak,
   last_activity_date |-> today]

\* UpdateProfileRow with an optimistic concurrency check: the row is written
\* only if it still is the row that was read.
UpdateProfileRowIfUnchanged(stored, uid, user_id, readProfile, values) ==
  IF stored = readProfile /\ ProfilesUpdatePolicy(uid, user_id) THEN values ELSE stored

\* UpdateProfileRow adding the run's points to the stored total instead of
\* writing the total that the run computed from its read.
UpdateProfileRowIncrement(stored, uid, user_id, readProfile, values) ==
  IF stored # NoProfile /\ ProfilesUpdatePolicy(uid, user_id)
  THEN [values EXCEPT !.total_points =
          stored.total_points + (values.total_points - readProfile.total_points)]
  ELSE stored

\* .from('profiles').update(values).eq('user_id', user_id), run as uid: the
\* stored row after the statement.  The statement carries no condition on
\* the row's current content.
UpdateProfileRow(stored, uid, user_id, readProfile, values) ==
  IF stored # NoProfile /\ ProfilesUpdatePolicy(uid, user_id) THEN values ELSE stored

\* .from('rewards').insert(row), run as uid: the table after the statement.
InsertRewardRow(table, uid, row) ==
  IF RewardsInsertPolicy(uid, row.user_id) THEN Append(table, row) ELSE table

\* .from('messages').insert(row), run as uid: the table after the statement.
InsertMessageRow(table, convs, uid, row) ==
  IF MessagesInsertPolicy(convs, uid, row.conversation_id)
  THEN Append(table, row)
  ELSE table

\* .from('messages').select('role, content').eq('conversation_id', id)
\*   .order('created_at', { ascending: true }).limit(10), run as uid
SelectHistory(table, convs, uid, conversation_id) ==
  LET Visible(m) == /\ m.conversation_id = conversation_id
                    /\ MessagesSelectPolicy(convs, uid, m.conversation_id)
      F[i \in 0..Len(table)] ==
        IF i = 0 THEN <<>>
        ELSE IF Visible(table[i])
             THEN Append(F[i - 1], [role |-> table[i].role, content |-> table[i].content])
             ELSE F[i - 1]
      rows == F[Len(table)]
  IN SubSeq(rows, 1, IF Len(rows) < HistoryLimit THEN Len(rows) ELSE HistoryLimit)

\* The texts of the two fixed entries that open the prompt (lines 123-130).
SystemPrompt == <<"s", "y", "s">>
SystemAck == <<"a", "c", "k">>

\* The messages array sent to the completion service (lines 122-138): the
\* system prompt, its acknowledgement, the history rows with the role
\* assistant renamed to model, and the current message.
GeminiMessages(messageHistory, message) ==
  <<[role |-> "user", text |-> SystemPrompt], [role |-> "model", text |-> SystemAck]>>
  \o [i \in 1..Len(messageHistory) |->
        [role |-> IF messageHistory[i].role = "user" THEN "user" ELSE "model",
         text |-> messageHistory[i].content]]
  \o <<[role |-> "user", text |-> message]>>

\* ------------------------------------------------------------------- state
VARIABLES
  clock,          \* the server's calendar day
  profiles,       \* public.profiles: user -> row, or NoProfile
  conversations,  \* public.conversations: sequence of rows, the id is the index
  messages,       \* public.messages in created_at order
  rewards,        \* public.rewards (the ledger) in created_at order
  turn,           \* slot -> the locals and the position of one handler invocation
  started,        \* number of handler invocations so far
  origin,         \* history: the profile rows the behaviour started from
  replyDays,      \* history: user -> days on which a message of theirs got a reply
  accrualDays,    \* history: user -> days that an accrual run of theirs took as today
  overlapped,     \* history: users that had two turns in flight together
  client          \* the state of the first user's browser client

vars == <<clock, profiles, conversations, messages, rewards, turn, started,
          origin, replyDays, accrualDays, overlapped, client>>

NoResponse == [status |-> 0]

\* The conversation ids that requests name: the first id the storage hands out.
\* Depending on the run it names no row, a row of the caller or a row of the
\* other user.
RequestConvIds == {1}

\* The locals of a handler invocation that has not started.
IdleTurn ==
  [pc |-> "idle", user |-> NoUser, message |-> <<>>, isBoost |-> FALSE,
   currentConversationId |-> NoConv, messageHistory |-> <<>>,
   geminiMessages |-> <<>>,
   userMsgError |-> "unset", aiMsgError |-> "unset",
   profile |-> NoProfile, today |-> NoDate, pointsToAdd |-> 0, newStreak |-> 0,
   response |-> NoResponse, rowsWritten |-> 0]

\* An invocation that has ended: its locals are gone, its response stays.
DoneTurn(response) == [IdleTurn EXCEPT !.pc = "done", !.response = response]

\* Requests: { message, conversationId?, isBoost? } with an Authorization header.
\* The second user only sends plain requests; isBoost is read only in turns
\* that the content screen lets through.
Requests ==
  { r \in [authHeader : AuthHeaders \cup {NoHeader}, message : Messages,
           conversationId : {NoConv} \cup RequestConvIds, isBoost : BOOLEAN] :
      /\ (r.authHeader # "tok_u1" => (r.message = CleanMsg /\ ~r.isBoost))
      /\ (r.isBoost => r.message = CleanMsg) }

GeminiOutcomes == {"ok", "status", "malformed"}

\* Positions at which the invocation still runs (foreground or background).
Running(t) == t.pc \notin {"idle", "done"}
InAccrual(t) == t.pc \in {"profile", "compute", "update", "reward"}
InForeground(t) == Running(t) /\ ~InAccrual(t)

\* The catch block's response; error is the message of the Error thrown.
ErrorResponse(error) == [status |-> ErrorStatus, error |-> error]

\* SuccessResponse with pointsAwarded: isHarmful.
SuccessResponsePointsIfHarmful(currentConversationId, harmful) ==
  [status |-> OkStatus, error |-> "", response |-> AiReply,
   conversationId |-> currentConversationId, pointsAwarded |-> harmful]

\* The success response (lines 298-309).
SuccessResponse(currentConversationId, harmful) ==
  [status |-> OkStatus, error |-> "", response |-> AiReply,
   conversationId |-> currentConversationId, pointsAwarded |-> ~harmful]

\* The client before any navigation: ChatApp's activeConversationId and
\* ChatInterface's currentConversationId are undefined, nothing is being
\* generated, the sidebar lists no conversation.  pending is the invocation
\* that serves the request in flight, sentWith the currentConversationId that
\* sendMessage captured, lastNav the last navigation since the last send.
InitialClient ==
  [activeConversationId |-> NoConv, currentConversationId |-> NoConv,
   isGenerating |-> FALSE, pending |-> "none", sentWith |-> NoConv,
   sidebar |-> {}, lastNav |-> "none"]

Init ==
  /\ clock = ClockStart
  /\ profiles \in {f \in [Users -> {FreshProfile, VeteranProfile, NoProfile}] :
                     \A u \in Users : f[u] \in InitProfilesOf(u)}
  /\ conversations = <<>>
  /\ messages = <<>>
  /\ rewards = <<>>
  /\ turn = [s \in Slots |-> IdleTurn]
  /\ started = 0
  /\ origin = profiles
  /\ replyDays = [u \in Users |-> InitAccrualDays(profiles[u])]
  /\ accrualDays = [u \in Users |-> InitAccrualDays(profiles[u])]
  /\ overlapped = {}
  /\ client = InitialClient

\* The clock advances by a day.
Tick ==
  /\ clock < MaxDay
  /\ clock' = clock + 1
  /\ UNCHANGED <<client, profiles, conversations, messages, rewards, turn, started,
                 origin, replyDays, accrualDays, overlapped>>

\* AfterAuth without the test that the credential resolved to a user.
AfterAuthNoUserCheck(user, conversationId) ==
  IF conversationId = NoConv THEN "conv" ELSE "history"

\* AfterAuth going to the history query without creating a conversation.
AfterAuthNoCreate(user, conversationId) ==
  IF user = NoUser THEN "done" ELSE "history"

\* Where the handler goes after authentication and parsing of the body.
AfterAuth(user, conversationId) ==
  IF user = NoUser THEN "done" ELSE IF conversationId = NoConv THEN "conv" ELSE "history"

\* A request arrives: lines 28-77.  A missing header or a credential that
\* resolves to no user throws and the catch block answers.  A new invocation
\* takes the first free slot, once no other invocation is before its response.
StartTurn(s, r) ==
  LET user == IF r.authHeader = NoHeader THEN NoUser ELSE getUser(r.authHeader)
      next == IF r.authHeader = NoHeader THEN "done"
              ELSE AfterAuth(user, r.conversationId) IN
  /\ ~Running(turn[s])
  /\ s = "s2" => Running(turn["s1"])
  /\ \A x \in Slots : ~InForeground(turn[x])
  /\ started < MaxTurns
  /\ started' = started + 1
  /\ turn' = [turn EXCEPT ![s] =
       IF next = "done"
       THEN DoneTurn(ErrorResponse(IF r.authHeader = NoHeader
                                   THEN "No authorization header"
                                   ELSE "Authentication failed"))
       ELSE [IdleTurn EXCEPT !.pc = next,
                             !.user = user, !.message = r.message,
                             !.isBoost = r.isBoost,
                             !.currentConversationId = r.conversationId]]
  /\ overlapped' =
       IF user # NoUser /\ \E x \in Slots \ {s} : Running(turn[x]) /\ turn[x].user = user
       THEN overlapped \cup {user} ELSE overlapped
  /\ UNCHANGED <<clock, profiles, conversations, messages, rewards,
                 origin, replyDays, accrualDays>>

\* conversations.insert({ user_id, title }).select().single(): lines 78-93.
CreateConversation(s) ==
  LET t == turn[s] IN
  /\ t.pc = "conv"
  /\ ConversationsInsertPolicy(t.user, t.user)
  /\ conversations' = Append(conversations,
                             [user_id |-> t.user, title |-> Title(t.message)])
  /\ turn' = [turn EXCEPT ![s].currentConversationId = Len(conversations) + 1,
                          ![s].pc = "history"]
  /\ UNCHANGED <<client, clock, profiles, messages, rewards, started,
                 origin, replyDays, accrualDays, overlapped>>

\* The history query and the building of the prompt: lines 96-138.
FetchHistory(s) ==
  LET t == turn[s]
      messageHistory ==
        SelectHistory(messages, conversations, t.user, t.currentConversationId) IN
  /\ t.pc = "history"
  /\ turn' = [turn EXCEPT
       ![s].messageHistory = messageHistory,
       ![s].geminiMessages = GeminiMessages(messageHistory, t.message),
       ![s].pc = "gemini"]
  /\ UNCHANGED <<client, clock, profiles, conversations, messages, rewards, started,
                 origin, replyDays, accrualDays, overlapped>>

\* AfterGemini without the check of the candidate text.
AfterGeminiStatusOnly(outcome) == IF outcome = "status" THEN "done" ELSE "saveUser"

\* Where the handler goes with the completion service's answer: lines 180-193.
AfterGemini(outcome) == IF outcome = "ok" THEN "saveUser" ELSE "done"

\* The message of the Error thrown on the completion service's answer.
GeminiError(outcome) ==
  IF outcome = "status" THEN "Gemini API error" ELSE "Invalid response from Gemini API"

\* The call of the completion service and the checks of its answer: lines 143-200.
CallGemini(s, outcome) ==
  LET t == turn[s]
      next == AfterGemini(outcome) IN
  /\ t.pc = "gemini"
  /\ turn' = [turn EXCEPT ![s] =
       IF next = "done"
       THEN DoneTurn(ErrorResponse(GeminiError(outcome)))
       ELSE [t EXCEPT !.messageHistory = <<>>, !.geminiMessages = <<>>,
                       !.pc = next]]
  /\ replyDays' = IF outcome = "ok"
                  THEN [replyDays EXCEPT ![t.user] = @ \cup {clock}]
                  ELSE replyDays
  /\ UNCHANGED <<client, clock, profiles, conversations, messages, rewards, started,
                 origin, accrualDays, overlapped>>

\* AfterUserInsert throwing on a failed insert.
AfterUserInsertThrows(userMsgError) ==
  IF userMsgError = "error" THEN "done" ELSE "saveAI"

\* Where the handler goes with the result of the insert of the user's
\* message: an error is logged only (lines 211-213).
AfterUserInsert(userMsgError) == "saveAI"

\* messages.insert of the user's message: lines 203-213.
SaveUserMessage(s) ==
  LET t == turn[s]
      row == [conversation_id |-> t.currentConversationId, role |-> "user",
              content |-> t.message]
      after == InsertMessageRow(messages, conversations, t.user, row)
      userMsgError == IF after = messages THEN "error" ELSE "null"
      next == AfterUserInsert(userMsgError) IN
  /\ t.pc = "saveUser"
  /\ messages' = after
  /\ turn' = [turn EXCEPT ![s] =
       IF next = "done"
       THEN DoneTurn(ErrorResponse("Failed to save message"))
       ELSE [t EXCEPT !.userMsgError = userMsgError,
                      !.rowsWritten = t.rowsWritten + (Len(after) - Len(messages)),
                      !.pc = next]]
  /\ UNCHANGED <<client, clock, profiles, conversations, rewards, started,
                 origin, replyDays, accrualDays, overlapped>>

\* StartsAccrual ignoring the content screen.
StartsAccrualAlways(harmful) == TRUE

\* Whether the background accrual is started: if (!isHarmful).
StartsAccrual(harmful) == ~harmful

\* messages.insert of the reply, then the start of the background task and
\* the success response: lines 216-233 and 298-309.
SaveAIMessage(s) ==
  LET t == turn[s]
      row == [conversation_id |-> t.currentConversationId, role |-> "assistant",
              content |-> AiReply]
      after == InsertMessageRow(messages, conversations, t.user, row)
      harmful == isHarmful(t.message) IN
  /\ t.pc = "saveAI"
  /\ messages' = after
  /\ turn' = [turn EXCEPT ![s] =
       IF StartsAccrual(harmful)
       THEN [IdleTurn EXCEPT
               !.pc = "profile", !.user = t.user, !.isBoost = t.isBoost,
               !.response = SuccessResponse(t.currentConversationId, harmful)]
       ELSE DoneTurn(SuccessResponse(t.currentConversationId, harmful))]
  /\ UNCHANGED <<client, clock, profiles, conversations, rewards, started,
                 origin, replyDays, accrualDays, overlapped>>

\* AfterProfile without the test of the row.
AfterProfileNoRowCheck(profile) == "compute"

\* Where the accrual goes with the result of the profile read: if (profile).
AfterProfile(profile) == IF profile = NoProfile THEN "done" ELSE "compute"

\* profiles.select('*').eq('user_id', user.id).single(): lines 237-243.
SelectProfile(s) ==
  LET t == turn[s]
      row == IF ProfilesSelectPolicy(t.user, t.user) THEN profiles[t.user] ELSE NoProfile
      next == AfterProfile(row) IN
  /\ t.pc = "profile"
  /\ turn' = [turn EXCEPT ![s] =
       IF next = "done"
       THEN DoneTurn(t.response)
       ELSE [t EXCEPT !.profile = row, !.pc = next]]
  /\ UNCHANGED <<client, clock, profiles, conversations, messages, rewards, started,
                 origin, replyDays, accrualDays, overlapped>>

\* The synchronous block between the profile read and the profile update:
\* lines 244-263; it ends by sending the update.
ComputeRewards(s) ==
  LET t == turn[s]
      today == clock
      yesterday == clock - 1
      streak == StreakStep(t.profile, today, yesterday) IN
  /\ t.pc = "compute"
  /\ turn' = [turn EXCEPT
       ![s].today = today,
       ![s].pointsToAdd = BoostStep(streak.pointsToAdd, t.profile, t.isBoost),
       ![s].newStreak = streak.newStreak,
       ![s].pc = "update"]
  /\ accrualDays' = [accrualDays EXCEPT ![t.user] = @ \cup {today}]
  /\ UNCHANGED <<client, clock, profiles, conversations, messages, rewards, started,
                 origin, replyDays, overlapped>>

\* The storage applies the profile update; the handler resumes and sends the
\* rewards insert when pointsToAdd is not 0: lines 266-276.
UpdateProfile(s) ==
  LET t == turn[s]
      values == ProfileUpdateValues(t.profile, t.pointsToAdd, t.newStreak, t.today) IN
  /\ t.pc = "update"
  /\ profiles' = [profiles EXCEPT ![t.user] =
                    UpdateProfileRow(profiles[t.user], t.user, t.user, t.profile, values)]
  /\ turn' = [turn EXCEPT ![s] =
       IF t.pointsToAdd # 0 THEN [t EXCEPT !.pc = "reward"] ELSE DoneTurn(t.response)]
  /\ UNCHANGED <<client, clock, conversations, messages, rewards, started,
                 origin, replyDays, accrualDays, overlapped>>

\* The storage executes the rewards insert: lines 277-289.  The handler does
\* not look at the result.
InsertReward(s) ==
  LET t == turn[s]
      row == [user_id |-> t.user, type |-> RewardType(t.pointsToAdd),
              points |-> t.pointsToAdd] IN
  /\ t.pc = "reward"
  /\ rewards' = InsertRewardRow(rewards, t.user, row)
  /\ turn' = [turn EXCEPT ![s] = DoneTurn(t.response)]
  /\ UNCHANGED <<client, clock, profiles, conversations, messages, started,
                 origin, replyDays, accrualDays, overlapped>>

Next ==
  \/ Tick
  \/ \E s \in Slots : \E r \in Requests : StartTurn(s, r) /\ UNCHANGED client
  \/ \E s \in Slots : CreateConversation(s)
  \/ \E s \in Slots : FetchHistory(s)
  \/ \E s \in Slots : \E outcome \in GeminiOutcomes : CallGemini(s, outcome)
  \/ \E s \in Slots : SaveUserMessage(s)
  \/ \E s \in Slots : SaveAIMessage(s)
  \/ \E s \in Slots : SelectProfile(s)
  \/ \E s \in Slots : ComputeRewards(s)
  \/ \E s \in Slots : UpdateProfile(s)
  \/ \E s \in Slots : InsertReward(s)

Spec == Init /\ [][Next]_vars

\* A behaviour that starts after earlier turns: the first user owns a
\* conversation that holds n stored messages, user and assistant rows in
\* turn, each with a content of its own; one more invocation arrives.
StoredMessages(n) ==
  [i \in 1..n |-> [conversation_id |-> 1,
                   role |-> IF i % 2 = 1 THEN "user" ELSE "assistant",
                   content |-> <<LowerLetters[i]>>]]

InitStored ==
  /\ clock = ClockStart
  /\ profiles \in {f \in [Users -> {FreshProfile, VeteranProfile, NoProfile}] :
                     \A u \in Users : f[u] \in InitProfilesOf(u)}
  /\ conversations = <<[user_id |-> "u1", title |-> Title(<<LowerLetters[1]>>)]>>
  /\ messages \in {StoredMessages(n) : n \in 0..MaxStored}
  /\ rewards = <<>>
  /\ turn = [s \in Slots |-> IdleTurn]
  /\ started = MaxTurns - 1
  /\ origin = profiles
  /\ replyDays = [u \in Users |-> InitAccrualDays(profiles[u])]
  /\ accrualDays = [u \in Users |-> InitAccrualDays(profiles[u])]
  /\ overlapped = {}
  /\ client = InitialClient

SpecStored == InitStored /\ [][Next]_vars

\* Request messages over a wider range of texts: every text of up to
\* MaxMsgLen characters over the letters of a banned word, the last of them
\* in upper case, and a blank; banned words in lower and upper case, alone
\* and inside longer words; and texts around the length limit of the title.
ScreenAlphabet == {"h", "a", "t", "E", " "}

WordMessages ==
  { <<"h","a","t","e">>,
    <<"w","h","a","t","e","v","e","r">>,
    <<"v","i","o","l","e","n","c","e">>,
    <<"n","o","n","v","i","o","l","e","n","c","e">>,
    <<"I","L","L","E","G","A","L">>,
    <<"i","l","l","e","g","a","l","l","y">>,
    <<"H","a","r","m","f","u","l","!">>,
    <<"u","n","h","a","r","m","f","u","l">> }

LongMessage(n) == [i \in 1..n |-> LowerLetters[((i - 1) % 26) + 1]]

LongMessages == {LongMessage(n) : n \in (TitleLimit - 1)..(TitleLimit + 2)}

WideMessages ==
  UNION {[1..n -> ScreenAlphabet] : n \in 1..MaxMsgLen} \cup WordMessages \cup LongMessages

WideRequests ==
  [authHeader : {"tok_u1"}, message : WideMessages, conversationId : {NoConv},
   isBoost : {FALSE}]

\* One invocation of the handler on a fresh account, with a request out of
\* WideRequests.  The clock stands still.
InitInput ==
  /\ clock = ClockStart
  /\ profiles = [u \in Users |-> IF u = "u1" THEN FreshProfile ELSE NoProfile]
  /\ conversations = <<>>
  /\ messages = <<>>
  /\ rewards = <<>>
  /\ turn = [s \in Slots |-> IdleTurn]
  /\ started = MaxTurns - 1
  /\ origin = profiles
  /\ replyDays = [u \in Users |-> {}]
  /\ accrualDays = [u \in Users |-> {}]
  /\ overlapped = {}
  /\ client = InitialClient

NextInput ==
  \/ /\ started < MaxTurns
     /\ \E s \in Slots : \E r \in WideRequests : StartTurn(s, r) /\ UNCHANGED client
  \/ \E s \in Slots : CreateConversation(s)
  \/ \E s \in Slots : FetchHistory(s)
  \/ \E s \in Slots : \E outcome \in GeminiOutcomes : CallGemini(s, outcome)
  \/ \E s \in Slots : SaveUserMessage(s)
  \/ \E s \in Slots : SaveAIMessage(s)
  \/ \E s \in Slots : SelectProfile(s)
  \/ \E s \in Slots : ComputeRewards(s)
  \/ \E s \in Slots : UpdateProfile(s)
  \/ \E s \in Slots : InsertReward(s)

SpecInput == InitInput /\ [][NextInput]_vars

\* ------------------------------------------------------------------ client
\* The browser client of the first user: ChatApp with its sidebar and its
\* ChatInterface, which sends every message to the handler.
ClientUser == "u1"
ClientToken == "tok_u1"

\* ConversationSidebar.loadConversations: the rows that the select policy on
\* public.conversations shows to the user.
loadConversations(convs, uid) == {id \in DOMAIN convs : convs[id].user_id = uid}

\* ChatInterface's effect on [conversationId, currentConversationId]: the
\* currentConversationId after it has run.
ConversationEffect(conversationId, currentConversationId) ==
  IF conversationId # NoConv /\ conversationId # currentConversationId
  THEN conversationId
  ELSE currentConversationId

\* The user clicks a conversation of the sidebar.
handleSelectConversation(id) ==
  /\ id \in client.sidebar
  /\ client' = [client EXCEPT
       !.activeConversationId = id,
       !.currentConversationId = ConversationEffect(id, client.currentConversationId),
       !.lastNav = "select"]
  /\ UNCHANGED <<clock, profiles, conversations, messages, rewards, turn, started,
                 origin, replyDays, accrualDays, overlapped>>

\* The user clicks New Chat while a conversation is selected.
handleNewConversation ==
  /\ client.activeConversationId # NoConv
  /\ client' = [client EXCEPT
       !.activeConversationId = NoConv,
       !.currentConversationId = ConversationEffect(NoConv, client.currentConversationId),
       !.lastNav = "newChat"]
  /\ UNCHANGED <<clock, profiles, conversations, messages, rewards, turn, started,
                 origin, replyDays, accrualDays, overlapped>>

\* sendMessage up to the invocation of the handler; the invocation takes slot s.
sendMessage(s, message) ==
  /\ ~client.isGenerating
  /\ StartTurn(s, [authHeader |-> ClientToken, message |-> message,
                   conversationId |-> client.currentConversationId,
                   isBoost |-> FALSE])
  /\ client' = [client EXCEPT
       !.isGenerating = TRUE, !.pending = s,
       !.sentWith = client.currentConversationId, !.lastNav = "none"]

\* sendMessage from the handler's response on: a conversation id other than
\* the one captured becomes the currentConversationId and the sidebar is
\* mounted anew; the effect runs; isGenerating is reset.
receiveResponse ==
  /\ client.isGenerating
  /\ turn[client.pending].response # NoResponse
  /\ LET response == turn[client.pending].response
         newConvId == IF response.status = OkStatus THEN response.conversationId
                      ELSE NoConv
         isNew == newConvId # NoConv /\ newConvId # client.sentWith IN
     client' = [client EXCEPT
       !.currentConversationId =
          ConversationEffect(client.activeConversationId,
                             IF isNew THEN newConvId ELSE client.currentConversationId),
       !.sidebar = IF isNew THEN loadConversations(conversations, ClientUser)
                   ELSE client.sidebar,
       !.isGenerating = FALSE, !.pending = "none", !.sentWith = NoConv]
  /\ UNCHANGED <<clock, profiles, conversations, messages, rewards, turn, started,
                 origin, replyDays, accrualDays, overlapped>>

\* The client is mounted over the tables of InitStored's user with one
\* conversation of two messages.
InitClient ==
  /\ clock = ClockStart
  /\ profiles \in {f \in [Users -> {FreshProfile, VeteranProfile, NoProfile}] :
                     \A u \in Users : f[u] \in InitProfilesOf(u)}
  /\ conversations = <<[user_id |-> ClientUser, title |-> Title(<<LowerLetters[1]>>)]>>
  /\ messages = StoredMessages(2)
  /\ rewards = <<>>
  /\ turn = [s \in Slots |-> IdleTurn]
  /\ started = 0
  /\ origin = profiles
  /\ replyDays = [u \in Users |-> InitAccrualDays(profiles[u])]
  /\ accrualDays = [u \in Users |-> InitAccrualDays(profiles[u])]
  /\ overlapped = {}
  /\ client = [InitialClient EXCEPT
                 !.sidebar = loadConversations(conversations, ClientUser)]

NextClient ==
  \/ Tick
  \/ \E id \in 1..(MaxTurns + 1) : handleSelectConversation(id)
  \/ handleNewConversation
  \/ \E s \in Slots : \E message \in Messages : sendMessage(s, message)
  \/ receiveResponse
  \/ \E s \in Slots : CreateConversation(s)
  \/ \E s \in Slots : FetchHistory(s)
  \/ \E s \in Slots : \E outcome \in GeminiOutcomes : CallGemini(s, outcome)
  \/ \E s \in Slots : SaveUserMessage(s)
  \/ \E s \in Slots : SaveAIMessage(s)
  \/ \E s \in Slots : SelectProfile(s)
  \/ \E s \in Slots : ComputeRewards(s)
  \/ \E s \in Slots : UpdateProfile(s)
  \/ \E s \in Slots : InsertReward(s)

SpecClient == InitClient /\ [][NextClient]_vars

\* ------------------------------------------------------------ claim helpers
\* Sum of the points of the ledger rows of user u.
SumPoints(table, u) ==
  LET F[i \in 0..Len(table)] ==
        IF i = 0 THEN 0
        ELSE F[i - 1] + (IF table[i].user_id = u THEN table[i].points ELSE 0)
  IN F[Len(table)]

Max(S) == CHOOSE x \in S : \A y \in S : y <= x

\* Number of consecutive days of the set that end with its latest day.
ConsecutiveDays(days) ==
  IF days = {} THEN 0
  ELSE LET last == Max(days)
           run == {d \in days : \A e \in d..last : e \in days}
       IN Cardinality(run)

\* A step in which the storage applies the profile update of slot s.
UpdateStepOf(s) == turn[s].pc = "update" /\ turn'[s].pc # "update"

\* A step in which the storage executes the rewards insert of slot s.
RewardStepOf(s) == turn[s].pc = "reward" /\ turn'[s].pc # "reward"

\* No accrual run of user u is under way.
AccrualsCompleted(u) == \A s \in Slots : ~(InAccrual(turn[s]) /\ turn[s].user = u)

\* No turn of user u is under way.
TurnsCompleted(u) == \A s \in Slots : ~(Running(turn[s]) /\ turn[s].user = u)

\* ------------------------------------------------------------------ claims

\* C1: for a profile that starts with total_points = 0 and no ledger rows,
\* once the accrual runs of the user have completed, total_points equals the
\* sum of the points of the user's ledger rows.
C1_TotalIsLedgerSum ==
  \A u \in Users :
    (origin[u] = FreshProfile /\ AccrualsCompleted(u))
      => profiles[u].total_points = SumPoints(rewards, u)

\* C2: no accrual run replaces the stored last_activity_date by an earlier
\* date (NULL counts as earlier than every date; the clock only advances).
C2_LastActivityNeverDecreases ==
  [][\A u \in Users :
       profiles[u] # NoProfile =>
         profiles'[u].last_activity_date >= profiles[u].last_activity_date]_vars

\* C3: the profile update is applied whatever the row holds by then (no
\* concurrency check rejects it): after the update of a run the stored
\* total_points is the total the run read plus its pointsToAdd, so of two runs
\* that read the same profile the later write wins and the other is lost.
C3_LastWriterWins ==
  [][\A s \in Slots :
       UpdateStepOf(s) =>
         profiles'[turn[s].user].total_points
           = turn[s].profile.total_points + turn[s].pointsToAdd]_vars

\* C3 witness: two runs of one user read the same profile, both updates have
\* been applied, and the stored total holds the pointsToAdd of one run only.
C3_LostUpdateReached ==
  \E s1 \in Slots : \E s2 \in Slots \ {s1} :
    /\ turn[s1].pc = "reward" /\ turn[s2].pc = "reward"
    /\ turn[s1].user = turn[s2].user
    /\ turn[s1].profile = turn[s2].profile
    /\ profiles[turn[s1].user].total_points
         = turn[s1].profile.total_points + turn[s1].pointsToAdd
    /\ profiles[turn[s1].user].total_points
         # turn[s1].profile.total_points + turn[s1].pointsToAdd + turn[s2].pointsToAdd

\* C4: under the schema's access policies every accrual run that found the
\* profile and computed pointsToAdd # 0 updates the profile and leaves exactly
\* one new ledger row of that user; a run with pointsToAdd = 0 leaves none.
C4_OneLedgerRowPerRun ==
  [][\A s \in Slots :
       /\ UpdateStepOf(s) =>
            /\ profiles'[turn[s].user] =
                 ProfileUpdateValues(turn[s].profile, turn[s].pointsToAdd,
                                     turn[s].newStreak, turn[s].today)
            /\ rewards' = rewards
            /\ (turn[s].pointsToAdd = 0 <=> turn'[s].pc = "done")
       /\ RewardStepOf(s) =>
            /\ turn[s].pointsToAdd # 0
            /\ Len(rewards') = Len(rewards) + 1
            /\ SubSeq(rewards', 1, Len(rewards)) = rewards
            /\ rewards'[Len(rewards')].user_id = turn[s].user
            /\ rewards'[Len(rewards')].points = turn[s].pointsToAdd]_vars

\* C5: when the completion service answers with a non-success status or
\* without the candidate text, the handler answers { error, details } with a
\* failure status, the turn has written and writes no message row, and no
\* reward accrual is started: the invocation ends and profiles and ledger stay.
C5_UpstreamErrorWritesNothing ==
  [][\A s \in Slots : \A outcome \in GeminiOutcomes \ {"ok"} :
       CallGemini(s, outcome) =>
         /\ turn'[s].response = ErrorResponse(GeminiError(outcome))
         /\ turn'[s].response.status = ErrorStatus
         /\ turn[s].rowsWritten = 0
         /\ messages' = messages
         /\ turn'[s].pc = "done"
         /\ profiles' = profiles /\ rewards' = rewards]_vars

\* C5 witness: a turn ended with the error response of a malformed answer of
\* the completion service, in a conversation it created, with no message row.
C5_UpstreamErrorReached ==
  \E s \in Slots :
    /\ turn[s].pc = "done"
    /\ turn[s].response = ErrorResponse(GeminiError("malformed"))
    /\ conversations # <<>>
    /\ messages = <<>>

\* C6: a turn whose message matches the banned-word screen answers with
\* pointsAwarded = false, starts no reward accrual (the invocation ends;
\* profile and ledger are as before), and has attempted both message inserts:
\* the rows are stored whenever the insert policy admits them.
C6_FlaggedTurnNoAccrual ==
  [][\A s \in Slots :
       (turn[s].pc = "saveAI" /\ turn'[s].pc # "saveAI" /\ isHarmful(turn[s].message)) =>
         LET t == turn[s]
             admitted == MessagesInsertPolicy(conversations, t.user,
                                              t.currentConversationId) IN
         /\ turn'[s].response.status = OkStatus
         /\ turn'[s].response.pointsAwarded = FALSE
         /\ turn'[s].pc = "done"
         /\ profiles' = profiles /\ rewards' = rewards
         /\ t.userMsgError # "unset"
         /\ admitted =>
              /\ t.userMsgError = "null"
              /\ Len(messages) >= 1
              /\ messages[Len(messages)] =
                   [conversation_id |-> t.currentConversationId, role |-> "user",
                    content |-> t.message]
              /\ messages' = Append(messages,
                   [conversation_id |-> t.currentConversationId,
                    role |-> "assistant", content |-> AiReply])]_vars

\* C6 witness: a flagged turn has ended with pointsAwarded = false, both of
\* its rows are stored and the profile of its user is the one it started from.
C6_FlaggedTurnReached ==
  \E s \in Slots :
    /\ turn[s].pc = "done"
    /\ turn[s].response.status = OkStatus
    /\ turn[s].response.pointsAwarded = FALSE
    /\ Len(messages) = 2
    /\ messages[1].content = BannedMsg /\ messages[2].role = "assistant"
    /\ profiles["u1"] = origin["u1"]
    /\ started = 1

\* C7 as stated: after turns of one user run one at a time, current_streak
\* is the number of consecutive days, ending on the day of the latest turn,
\* on each of which a message of the user received an assistant reply.
C7_StreakCountsEveryTurn ==
  \A u \in Users :
    (profiles[u] # NoProfile /\ u \notin overlapped /\ TurnsCompleted(u))
      => profiles[u].current_streak = ConsecutiveDays(replyDays[u])

\* C7 amended: after turns of one user with a profile run one at a time,
\* current_streak is the number of consecutive days, ending on the day of the
\* latest reward accrual, on each of which an accrual of the user ran, that is
\* a turn that received a reply and was not flagged by the content screen,
\* counted on the day its accrual read the clock.
C7_StreakCountsAccrualDays ==
  \A u \in Users :
    (profiles[u] # NoProfile /\ u \notin overlapped /\ TurnsCompleted(u))
      => profiles[u].current_streak = ConsecutiveDays(accrualDays[u])

\* C7 witness: two turns of u1 ran one after the other on consecutive days
\* from a fresh profile and the streak is 2.
C7_TwoDayStreakReached ==
  /\ origin["u1"] = FreshProfile
  /\ "u1" \notin overlapped /\ TurnsCompleted("u1")
  /\ accrualDays["u1"] = {ClockStart, ClockStart + 1}
  /\ profiles["u1"].current_streak = 2

\* The run of slot s is without boost and today is d days after the
\* last_activity_date it read.
PlainRunAfter(s, d) ==
  /\ ~turn[s].isBoost
  /\ turn[s].profile # NoProfile
  /\ turn[s].profile.last_activity_date # NoDate
  /\ turn[s].today = turn[s].profile.last_activity_date + d

\* C8: a run without boost on a profile whose last_activity_date is the day
\* before today stores current_streak = previous + 1, computes pointsToAdd = 6,
\* stores total_points = previous + 6 and last_activity_date = today, and
\* records a ledger row of category streak.
C8_ConsecutiveDayRun ==
  [][\A s \in Slots :
       /\ (UpdateStepOf(s) /\ PlainRunAfter(s, 1)) =>
            /\ turn[s].pointsToAdd = 6
            /\ profiles'[turn[s].user] =
                 [total_points |-> turn[s].profile.total_points + 6,
                  current_streak |-> turn[s].profile.current_streak + 1,
                  last_activity_date |-> turn[s].today]
       /\ (RewardStepOf(s) /\ PlainRunAfter(s, 1)) =>
            rewards' = Append(rewards, [user_id |-> turn[s].user,
                                        type |-> "streak", points |-> 6])]_vars

\* C9: a run without boost on a profile whose last_activity_date is today
\* computes pointsToAdd = 1, leaves current_streak and last_activity_date as
\* read and stores the total_points read plus 1.
C9_SameDayRun ==
  [][\A s \in Slots :
       (UpdateStepOf(s) /\ PlainRunAfter(s, 0)) =>
         /\ turn[s].pointsToAdd = 1
         /\ turn[s].newStreak = turn[s].profile.current_streak
         /\ profiles'[turn[s].user] =
              [turn[s].profile EXCEPT !.total_points = @ + 1]]_vars

\* C9 witness: the update of a same-day run without boost has been applied to
\* a profile with a streak, and the stored row is the row read with one more
\* point.
C9_SameDayRunReached ==
  \E s \in Slots :
    /\ turn[s].pc = "reward"
    /\ PlainRunAfter(s, 0)
    /\ turn[s].profile.current_streak > 1
    /\ profiles[turn[s].user] = [turn[s].profile EXCEPT !.total_points = @ + 1]

\* The run of slot s is without boost and read a profile that was never
\* active or was last active two or more days before today.
PlainRunAfterGap(s) ==
  /\ ~turn[s].isBoost
  /\ turn[s].profile # NoProfile
  /\ turn[s].today # NoDate
  /\ \/ turn[s].profile.last_activity_date = NoDate
     \/ turn[s].today >= turn[s].profile.last_activity_date + 2

\* C10: a run without boost on a profile whose last_activity_date is NULL or
\* two or more days before today stores current_streak = 1, computes
\* pointsToAdd = 1 and records a ledger row of category message.
C10_GapOrFirstRun ==
  [][\A s \in Slots :
       /\ (UpdateStepOf(s) /\ PlainRunAfterGap(s)) =>
            /\ turn[s].pointsToAdd = 1
            /\ profiles'[turn[s].user].current_streak = 1
       /\ (RewardStepOf(s) /\ PlainRunAfterGap(s)) =>
            rewards' = Append(rewards, [user_id |-> turn[s].user,
                                        type |-> "message", points |-> 1])]_vars

\* pointsToAdd of a run without boost, by streak branch, as the claims state
\* it: 6 on the day after the last activity, 1 on the same day, after a gap
\* and on the first activity.
UnboostedPoints(s) ==
  IF /\ turn[s].profile.last_activity_date # NoDate
     /\ turn[s].today = turn[s].profile.last_activity_date + 1
  THEN 6 ELSE 1

\* C11: in a run with isBoost, pointsToAdd is 10 less than without boost when
\* the total_points read is >= 10, in every streak branch (-9 same day, -4
\* consecutive day, -9 gap or first activity); when the total read is < 10,
\* pointsToAdd and the stored total are those of a run without boost.
C11_BoostNetsTen ==
  [][\A s \in Slots :
       (UpdateStepOf(s) /\ turn[s].isBoost) =>
         LET t == turn[s] IN
         /\ t.profile.total_points >= 10 =>
              /\ t.pointsToAdd = UnboostedPoints(s) - 10
              /\ t.pointsToAdd \in {-9, -4}
         /\ t.profile.total_points < 10 =>
              t.pointsToAdd = UnboostedPoints(s)
         /\ profiles'[t.user].total_points = t.profile.total_points + t.pointsToAdd]_vars

\* C11 witness: the update of a boosted run on the day after the last
\* activity has been applied: 13 points read, pointsToAdd = -4, 9 stored.
C11_BoostedStreakRunReached ==
  \E s \in Slots :
    /\ turn[s].pc = "reward"
    /\ turn[s].isBoost
    /\ turn[s].profile.total_points >= 10
    /\ turn[s].today = turn[s].profile.last_activity_date + 1
    /\ turn[s].pointsToAdd = -4
    /\ profiles[turn[s].user].total_points = turn[s].profile.total_points - 4

\* C12: the ledger row written by a run carries points = pointsToAdd and the
\* category streak when pointsToAdd > 1, message when it is 1, boost when it
\* is < 0, and a run writes one row only: a boosted consecutive-day run is
\* recorded as one boost row of -4.
C12_LedgerRowCategory ==
  [][\A s \in Slots :
       RewardStepOf(s) =>
         LET t == turn[s]
             category == IF t.pointsToAdd > 1 THEN "streak"
                         ELSE IF t.pointsToAdd = 1 THEN "message" ELSE "boost" IN
         rewards' = Append(rewards, [user_id |-> t.user, type |-> category,
                                     points |-> t.pointsToAdd])]_vars

\* The stored rows of a conversation, in created_at order.
ConversationRows(table, conversation_id) ==
  LET F[i \in 0..Len(table)] ==
        IF i = 0 THEN <<>>
        ELSE IF table[i].conversation_id = conversation_id
             THEN Append(F[i - 1], table[i]) ELSE F[i - 1]
  IN F[Len(table)]

\* The step of slot s that runs the history query and builds the prompt.
FetchStepOf(s) == turn[s].pc = "history" /\ turn'[s].pc = "gemini"

\* What the prompt holds between the two opening entries and the current message.
PromptHistory(geminiMessages) == SubSeq(geminiMessages, 3, Len(geminiMessages) - 1)

\* C13: for a conversation of the caller that holds n stored messages, the
\* history in the prompt is the min(n, 10) most recently created messages,
\* oldest first; for n > 10 it includes the message stored last.
C13_HistoryIsMostRecent ==
  [][\A s \in Slots :
       (/\ FetchStepOf(s)
        /\ turn[s].currentConversationId \in DOMAIN conversations
        /\ conversations[turn[s].currentConversationId].user_id = turn[s].user) =>
         LET rows == ConversationRows(messages, turn[s].currentConversationId)
             n == Len(rows)
             k == IF n < 10 THEN n ELSE 10
             history == PromptHistory(turn'[s].geminiMessages) IN
         /\ Len(history) = k
         /\ \A i \in 1..k :
              /\ history[i].text = rows[n - k + i].content
              /\ history[i].role = IF rows[n - k + i].role = "user" THEN "user" ELSE "model"]_vars

\* The step of slot s that stores the reply and answers the request.
SaveAIStepOf(s) == turn[s].pc = "saveAI" /\ turn'[s].pc # "saveAI"

\* Some banned word occurs in str at some position, in any letter case.
OccursAsSubstring(str) ==
  \E w \in BannedWords : \E i \in 1..Len(str) :
    /\ i + Len(w) - 1 <= Len(str)
    /\ \A k \in 1..Len(w) : toLowerCaseChar(str[i + k - 1]) = w[k]

\* Some banned word occurs in str in any letter case, with no letter, digit
\* or underscore next to it on either side.
OccursAsWord(str) ==
  \E w \in BannedWords : \E i \in 1..Len(str) :
    /\ i + Len(w) - 1 <= Len(str)
    /\ \A k \in 1..Len(w) : toLowerCaseChar(str[i + k - 1]) = w[k]
    /\ i > 1 => str[i - 1] \notin WordChars
    /\ i + Len(w) <= Len(str) => str[i + Len(w)] \notin WordChars

\* C14 as stated: the content screen flags a message exactly when a banned
\* word occurs in it as a substring in any letter case, also inside a longer
\* word; a flagged message gets no reward accrual.
C14_FlagsSubstring ==
  [][\A s \in Slots :
       SaveAIStepOf(s) =>
         /\ turn'[s].response.pointsAwarded = ~OccursAsSubstring(turn[s].message)
         /\ OccursAsSubstring(turn[s].message) => turn'[s].pc = "done"]_vars

\* C14: the content screen flags a message exactly when a banned word occurs
\* in it as a whole word in any letter case: not preceded and not followed by
\* a letter, a digit or an underscore.  A flagged message gets no reward
\* accrual; a message without such an occurrence starts one.
C14_FlagsWholeWord ==
  [][\A s \in Slots :
       SaveAIStepOf(s) =>
         /\ turn'[s].response.pointsAwarded = ~OccursAsWord(turn[s].message)
         /\ turn'[s].pc = IF OccursAsWord(turn[s].message) THEN "done" ELSE "profile"]_vars

\* C14 witness: a turn with a banned word in mixed case after a blank has
\* been answered without points and its accrual was not started.
C14_FlaggedMixedCaseReached ==
  \E s \in Slots :
    /\ turn[s].pc = "done"
    /\ turn[s].response.status = OkStatus
    /\ ~turn[s].response.pointsAwarded
    /\ Len(messages) = 2
    /\ messages[1].content = <<" ", "h", "a", "t", "E">>
    /\ rewards = <<>> /\ profiles = origin

\* C15: a request without authorization header, or with a credential that
\* resolves to no user, is answered with an error at once: the invocation
\* ends at that step, so it makes no completion call, and no conversation
\* row, message row, profile row or ledger row has changed.
C15_UnauthenticatedRejected ==
  [][\A s \in Slots : \A r \in Requests :
       (r.authHeader \in {NoHeader, "tok_bad"} /\ StartTurn(s, r)) =>
         /\ turn'[s].pc = "done"
         /\ turn'[s].response.status = ErrorStatus
         /\ turn'[s].response.error = IF r.authHeader = NoHeader
                                      THEN "No authorization header"
                                      ELSE "Authentication failed"
         /\ UNCHANGED <<profiles, conversations, messages, rewards, replyDays>>]_vars

\* C15 witness: the only request so far came with a credential that resolves
\* to no user; it has its error response and every table is as it started.
C15_BadCredentialRejectedReached ==
  \E s \in Slots :
    /\ started = 1
    /\ turn[s].pc = "done"
    /\ turn[s].response.status = ErrorStatus
    /\ turn[s].response.error = "Authentication failed"
    /\ conversations = <<>> /\ messages = <<>> /\ rewards = <<>>
    /\ profiles = origin

\* The step of slot s that sends the insert of the user's message.
SaveUserStepOf(s) == turn[s].pc = "saveUser" /\ turn'[s].pc # "saveUser"

\* C16: once the completion call has returned a valid reply, the handler
\* answers with success and that reply whether the insert of the user row,
\* of the assistant row or of both fails: after the attempt for the user row,
\* stored or not, the handler goes on to the attempt for the assistant row,
\* and after that one, stored or not, to the success response; each of the
\* two steps adds at most its one row.
C16_InsertFailuresIgnored ==
  [][\A s \in Slots :
       LET t == turn[s]
           userRow == [conversation_id |-> t.currentConversationId,
                       role |-> "user", content |-> t.message]
           aiRow == [conversation_id |-> t.currentConversationId,
                     role |-> "assistant", content |-> AiReply] IN
       /\ SaveUserStepOf(s) =>
            /\ turn'[s].pc = "saveAI"
            /\ messages' \in {messages, Append(messages, userRow)}
       /\ SaveAIStepOf(s) =>
            /\ turn'[s].response.status = OkStatus
            /\ turn'[s].response.response = AiReply
            /\ messages' \in {messages, Append(messages, aiRow)}]_vars

\* C16 witness: a turn named a conversation that does not exist, both of its
\* inserts failed, and it has its success response with the reply.
C16_BothInsertsFailedReached ==
  \E s \in Slots :
    /\ started = 1
    /\ turn[s].pc \in {"profile", "done"}
    /\ turn[s].response.status = OkStatus
    /\ turn[s].response.response = AiReply
    /\ turn[s].response.conversationId = 1
    /\ conversations = <<>>
    /\ messages = <<>>

\* C17: a turn that is not flagged and whose completion call succeeded is
\* answered with success and pointsAwarded = true.  The response is made in
\* the step that starts the accrual, before the accrual has read or written
\* anything, and no step of the accrual changes it, whether the accrual finds
\* no profile, has a write denied or nets negative points.
C17_PointsAwardedBeforeAccrual ==
  [][\A s \in Slots :
       /\ (SaveAIStepOf(s) /\ ~OccursAsWord(turn[s].message)) =>
            /\ turn'[s].response.status = OkStatus
            /\ turn'[s].response.response = AiReply
            /\ turn'[s].response.pointsAwarded = TRUE
            /\ turn'[s].pc = "profile"
            /\ UNCHANGED <<profiles, rewards>>
       /\ InAccrual(turn[s]) => turn'[s].response = turn[s].response]_vars

\* C17 witness: the only turn so far was answered with pointsAwarded = true;
\* its accrual has ended, took points off the total and stored no ledger row.
C17_AwardedYetNegativeReached ==
  \E s \in Slots :
    /\ started = 1
    /\ turn[s].pc = "done"
    /\ turn[s].response.status = OkStatus
    /\ turn[s].response.pointsAwarded
    /\ profiles["u1"].total_points < origin["u1"].total_points
    /\ rewards = <<>>

\* C18: an accrual that finds no profile row for the user writes nothing: it
\* ends at the profile read with no profile row created or updated and no
\* ledger row added, and the turn's response stays the success response.
C18_NoProfileNoWrites ==
  [][/\ \A s \in Slots :
          (/\ turn[s].pc = "profile" /\ turn'[s].pc # "profile"
           /\ profiles[turn[s].user] = NoProfile) =>
            /\ turn'[s].pc = "done"
            /\ turn'[s].response = turn[s].response
            /\ turn'[s].response.status = OkStatus
            /\ UNCHANGED <<profiles, rewards>>
     /\ \A u \in Users : profiles[u] = NoProfile => profiles'[u] = NoProfile]_vars

\* C18 witness: the only turn so far is one of the user without profile row;
\* it stored its two messages, was answered with success, and its accrual has
\* ended with the profile still absent and the ledger empty.
C18_NoProfileRunReached ==
  \E s \in Slots :
    /\ started = 1
    /\ turn[s].pc = "done"
    /\ turn[s].response.status = OkStatus
    /\ turn[s].response.pointsAwarded
    /\ Len(conversations) = 1 /\ conversations[1].user_id = "u2"
    /\ Len(messages) = 2
    /\ profiles["u2"] = NoProfile
    /\ rewards = <<>>

\* The conversation that the invocation in slot s works on is a stored row
\* of its caller.
CallerOwnsConversation(s) ==
  /\ turn[s].currentConversationId \in DOMAIN conversations
  /\ conversations[turn[s].currentConversationId].user_id = turn[s].user

\* C19: a message row is only written into a conversation owned by the
\* caller of the turn that writes it: the table of messages changes only by
\* one row appended by an insert step of a turn, into the conversation of
\* that turn, which its caller owns.  A turn that names a conversation of
\* another user gets none of its messages as prompt history.
C19_MessagesStayWithOwner ==
  [][/\ messages' # messages =>
          \E s \in Slots :
            /\ SaveUserStepOf(s) \/ SaveAIStepOf(s)
            /\ CallerOwnsConversation(s)
            /\ Len(messages') = Len(messages) + 1
            /\ SubSeq(messages', 1, Len(messages)) = messages
            /\ messages'[Len(messages')].conversation_id = turn[s].currentConversationId
     /\ \A s \in Slots :
          (FetchStepOf(s) /\ ~CallerOwnsConversation(s)) =>
            /\ turn'[s].messageHistory = <<>>
            /\ PromptHistory(turn'[s].geminiMessages) = <<>>]_vars

\* C19 witness: the second user's turn created conversation 1 and stored its
\* two messages there; then a turn of the first user named conversation 1 and
\* was answered, and the conversation still holds the two messages only.
C19_ForeignConversationReached ==
  \E s \in Slots :
    /\ started = 2
    /\ turn[s].pc = "profile"
    /\ turn[s].user = "u1"
    /\ turn[s].response.status = OkStatus
    /\ turn[s].response.conversationId = 1
    /\ Len(conversations) = 1 /\ conversations[1].user_id = "u2"
    /\ Len(messages) = 2

\* The step of slot s that creates the conversation.
CreateStepOf(s) == turn[s].pc = "conv" /\ turn'[s].pc # "conv"

\* C20: a turn submitted without conversationId creates exactly one
\* conversation row: the table of conversations changes only in the step in
\* which such a turn appends its row, owned by the caller and titled with the
\* message when that has at most 50 characters and else with its first 50
\* characters followed by "..."; the turn works on the id of that row, and
\* its success response carries it.
C20_NewConversationRow ==
  [][/\ \A s \in Slots :
          CreateStepOf(s) =>
            LET message == turn[s].message
                title == IF Len(message) <= 50 THEN message
                         ELSE [i \in 1..53 |-> IF i <= 50 THEN message[i] ELSE "."] IN
            /\ conversations' = Append(conversations,
                                       [user_id |-> turn[s].user, title |-> title])
            /\ turn'[s].currentConversationId = Len(conversations')
     /\ conversations' # conversations => \E s \in Slots : CreateStepOf(s)
     /\ \A s \in Slots :
          SaveAIStepOf(s) =>
            /\ Len(conversations) = 1
            /\ conversations[1].user_id = turn[s].user
            /\ turn'[s].response.conversationId = 1]_vars

\* C20 witness: a turn with a message of more than 50 characters and no
\* conversationId has its success response with the id of the one
\* conversation row, whose title has 53 characters and ends in "...".
C20_LongTitleReached ==
  \E s \in Slots :
    /\ turn[s].pc \in {"profile", "done"}
    /\ turn[s].response.status = OkStatus
    /\ turn[s].response.conversationId = 1
    /\ Len(conversations) = 1
    /\ conversations[1].user_id = "u1"
    /\ Len(messages) = 2 /\ Len(messages[1].content) = 51
    /\ Len(conversations[1].title) = 53
    /\ SubSeq(conversations[1].title, 51, 53) = <<".", ".", ".">>

\* The accrual run in slot s has computed its pointsToAdd with the streak
\* bonus: it read a profile whose last activity was the day before its today.
BonusRun(s) ==
  /\ turn[s].pc \in {"update", "reward"}
  /\ turn[s].profile.last_activity_date = turn[s].today - 1
  /\ turn[s].pointsToAdd \in {BaseReward + StreakBonus, BaseReward + StreakBonus - BoostCost}

\* C21: for one user and one calendar day at most one accrual run computes
\* its pointsToAdd with the +5 streak bonus, also when two turns of the user
\* run concurrently: no two runs in flight hold a pointsToAdd with the bonus
\* for the same user and the same day.
C21_OneBonusRunPerDay ==
  \A s1 \in Slots : \A s2 \in Slots \ {s1} :
    ~(/\ BonusRun(s1) /\ BonusRun(s2)
      /\ turn[s1].user = turn[s2].user
      /\ turn[s1].today = turn[s2].today)

\* C22: starting from a profile with total_points >= 0, the stored
\* total_points is never negative, after any sequence or interleaving of
\* accrual runs of the user, with or without boost.
C22_TotalNeverNegative ==
  \A u \in Users : profiles[u] # NoProfile => profiles[u].total_points >= 0

\* C22 witness: two boosted turns of the first user were in flight together
\* after a day without activity; both accruals have ended, each took 9 points
\* off the 13 it read, and the stored total is 4.
C22_OverlappedBoostsReached ==
  /\ "u1" \in overlapped
  /\ started = 2
  /\ \A s \in Slots : turn[s].pc = "done" /\ turn[s].response.status = OkStatus
  /\ origin["u1"].total_points = 13
  /\ profiles["u1"].total_points = 4
  /\ profiles["u1"].current_streak = 1

\* The step of slot s in which the completion call fails and the catch block
\* answers.
FailStepOf(s) ==
  /\ turn[s].pc = "gemini"
  /\ turn'[s].pc = "done"
  /\ turn'[s].response.status = ErrorStatus

C24_NewChatSendsWithoutId ==
  [][\A s \in Slots :
       (/\ client.lastNav = "newChat"
        /\ ~client.isGenerating /\ client'.isGenerating
        /\ client'.pending = s) =>
         /\ turn'[s].currentConversationId = NoConv
         /\ turn'[s].pc = "conv"]_vars

====
